---------------------------- MODULE Spec2Model ----------------------------
(***************************************************************************)
(* puppetbeacon: AgentState / PuppetAgent (puppetbeacon/monitors.py) and   *)
(* the helpers get_timedelta / safe_get (puppetbeacon/utils.py).           *)
(*                                                                         *)
(* The filesystem (summary file, run lock, disabled lock) and the clock    *)
(* are the environment; one PuppetAgent instance is the program state.     *)
(* A call is one atomic action (the library is synchronous); its outcome   *)
(* (value returned or exception raised) is recorded in ret.                *)
(***************************************************************************)
EXTENDS Integers, Sequences, FiniteSets, TLC

VARIABLES
    now,            \* the clock, in ticks of 1/Res second (datetime.now())
    summary_file,   \* state of the file at path self.summary_file
    run_lock,       \* state of the file at path self.run_lock
    disabled_lock,  \* state of the file at path self.disabled_lock
    phase,          \* "new": no instance yet, "live": instance constructed,
                    \* "failed": the constructor raised; "pure": helper specs
    self,           \* the attributes of the PuppetAgent instance
    args,           \* arguments / environment snapshot of the last call
    ret,            \* outcome of the last call
    last_present    \* history: content of the disabled lock at the most
                    \* recent read of `disabled` that found the lock present

vars == <<now, summary_file, run_lock, disabled_lock, phase, self, args, ret,
          last_present>>

-----------------------------------------------------------------------------
(* Bounds of the model *)

\* numbers are held as integer multiples of 1/Res; the clock ticks Res times
\* per second
Res == 2
\* the clock runs from 0 to MaxNow ticks
MaxNow == 6
\* seconds the local time zone is ahead of UTC; the offset is taken to be the
\* same at every instant of the modelled window (no change of daylight
\* saving time between a timestamp and the moment it is compared with)
UtcOffset == 1
\* longest key path handed to safe_get in the helper specification
MaxKeys == 2

-----------------------------------------------------------------------------
(* Python values (what yaml.safe_load can produce, plus bool) *)

None == [t |-> "None"]
Bool(b) == [t |-> "bool", b |-> b]
\* a number whose value is u / Res (an int n is Num(n * Res))
Num(u) == [t |-> "num", u |-> u]
\* a number outside the range datetime can represent (1e12: ValueError, year
\* out of range; 1e20: OverflowError; neither is a TypeError)
BigNum == [t |-> "bignum"]
Str(s) == [t |-> "str", s |-> s]
List(items) == [t |-> "list", items |-> items]
Dict(m) == [t |-> "dict", m |-> m]

EmptyMap == [k \in {} |-> None]
EmptyDict == Dict(EmptyMap)

\* outcome of evaluating an expression or a call
Ok(v) == [exc |-> "none", val |-> v]
Raise(e) == [exc |-> e]
Raised(r) == r.exc # "none"

\* bool(v): the truth value Python gives v
Truthy(v) ==
    CASE v.t = "None" -> FALSE
      [] v.t = "bool" -> v.b
      [] v.t = "num" -> v.u # 0
      [] v.t = "bignum" -> TRUE
      [] v.t = "str" -> v.s # ""
      [] v.t = "list" -> v.items # <<>>
      [] v.t = "dict" -> DOMAIN v.m # {}

\* except <handler>: the exception classes a handler catches
\* (IOError and OSError derive from EnvironmentError; the yaml errors derive
\* from yaml.YAMLError)
Catches(handler, e) ==
    CASE handler = "EnvironmentError" -> e \in {"EnvironmentError", "IOError", "OSError"}
      [] handler = "IOError" -> e = "IOError"
      [] handler = "OSError" -> e = "OSError"
      [] handler = "YAMLError" -> e = "YAMLError"
      [] handler = "KeyError" -> e = "KeyError"
      [] handler = "TypeError" -> e = "TypeError"

\* x truncated toward zero to a multiple of d (Python's int() of a float)
TruncDiv(x, d) == IF x >= 0 THEN x \div d ELSE -((-x) \div d)

\* the decimal strings of the model's universe and the ints they spell
DecimalLiteral == ("12" :> 12)

\* int(v)
int(v) ==
    CASE v.t = "num" -> Ok(Num(TruncDiv(v.u, Res) * Res))
      [] v.t = "bignum" -> Ok(v)
      [] v.t = "bool" -> Ok(Num(IF v.b THEN Res ELSE 0))
      [] v.t = "str" -> IF v.s \in DOMAIN DecimalLiteral
                        THEN Ok(Num(DecimalLiteral[v.s] * Res))
                        ELSE Raise("ValueError")
      [] OTHER -> Raise("TypeError")

\* data[key] for a str key
GetItem(data, key) ==
    CASE data.t = "dict" -> IF key \in DOMAIN data.m THEN Ok(data.m[key])
                                                     ELSE Raise("KeyError")
      [] OTHER -> Raise("TypeError")

-----------------------------------------------------------------------------
(* puppetbeacon/utils.py *)

\* the naive local time, in ticks, of the instant `tick` ticks after the epoch
LocalTime(tick) == tick + UtcOffset * Res

\* datetime.fromtimestamp(timestamp): a naive local datetime
fromtimestamp(timestamp) ==
    CASE timestamp.t = "num" -> Ok(LocalTime(timestamp.u))
      [] timestamp.t = "bool" -> Ok(LocalTime(IF timestamp.b THEN Res ELSE 0))
      [] timestamp.t = "bignum" -> Raise("ValueError")
      [] OTHER -> Raise("TypeError")

\* get_timedelta rounding down instead of cutting toward zero
get_timedelta_floor(timestamp, clock) ==
    LET date_object == fromtimestamp(timestamp) IN
    IF Raised(date_object)
    THEN IF Catches("TypeError", date_object.exc) THEN Ok(None) ELSE date_object
    ELSE Ok(Num(((LocalTime(clock) - date_object.val) \div Res) * Res))

\* get_timedelta(timestamp), evaluated when the clock reads `clock`
get_timedelta(timestamp, clock) ==
    LET date_object == fromtimestamp(timestamp) IN
    IF Raised(date_object)
    THEN IF Catches("TypeError", date_object.exc) THEN Ok(None) ELSE date_object
    ELSE LET time_delta == LocalTime(clock) - date_object.val
         IN  Ok(Num(TruncDiv(time_delta, Res) * Res))

\* safe_get(data, *keys)
RECURSIVE safe_get(_, _)
safe_get(data, keys) ==
    IF keys = <<>> THEN Ok(data)
    ELSE LET item == GetItem(data, Head(keys)) IN
         IF Raised(item)
         THEN IF Catches("KeyError", item.exc) THEN Ok(None) ELSE item
         ELSE safe_get(item.val, Tail(keys))

-----------------------------------------------------------------------------
(* The filesystem and the YAML loader *)

\* no file at the path
Absent == [st |-> "absent"]
\* a file the process may not open or stat (EACCES)
NoAccess == [st |-> "noaccess"]
\* a readable file: its content (the two YAML files) or its modification
\* time in ticks (the run lock, whose content is never read)
TextFile(content) == [st |-> "file", content |-> content]
LockFile(mtime) == [st |-> "file", mtime |-> mtime]

\* text that is not YAML, and text that is the YAML form of a value (an empty
\* file is the form of None)
Malformed == [y |-> "malformed"]
Document(v) == [y |-> "document", doc |-> v]

\* open(path, 'r')
open(file) == IF file.st = "file" THEN Ok(file.content) ELSE Raise("IOError")

\* os.path.getmtime(path)
getmtime(file) == IF file.st = "file" THEN Ok(Num(file.mtime)) ELSE Raise("OSError")

\* yaml.safe_load(stream)
yaml_safe_load(content) ==
    IF content.y = "malformed" THEN Raise("YAMLError") ELSE Ok(content.doc)

-----------------------------------------------------------------------------
(* puppetbeacon/monitors.py *)

\* a call's outcome together with the instance's attributes after it
Out(res, s) == [res |-> res, self |-> s]

\* the attributes before any initializer has run
Unborn ==
    [disabled_ |-> None, disabled_message |-> None, run_duration_ |-> None,
     last_run |-> None, last_run_duration |-> None, events_failed |-> None,
     resources_failed |-> None, resources_failed_restart |-> None,
     puppet_version |-> None]

\* AgentState.__init__ (the three paths are fixed; the files at them are the
\* variables summary_file, run_lock and disabled_lock)
AgentState_init(s) ==
    [s EXCEPT !.disabled_ = None, !.disabled_message = None]

\* AgentState.disabled
disabled(s, lock) ==
    LET f == open(lock)
        doc == yaml_safe_load(f.val)
        msg == safe_get(doc.val, <<"disabled_message">>)
        body == IF Raised(f) THEN Out(f, s)
                ELSE IF Raised(doc) THEN Out(doc, s)
                ELSE IF Raised(msg) THEN Out(msg, s)
                ELSE Out(Ok(Bool(TRUE)), [s EXCEPT !.disabled_message = msg.val])
    IN  IF Raised(body.res) /\ Catches("EnvironmentError", body.res.exc)
        THEN Out(Ok(Bool(FALSE)), body.self)
        ELSE body

\* get_run_summary without its handler for yaml.YAMLError
get_run_summary_unguarded(file) ==
    LET f == open(file)
        loaded == IF Raised(f) THEN f ELSE yaml_safe_load(f.val)
        run_summary ==
            IF ~Raised(loaded) THEN loaded
            ELSE IF Catches("IOError", loaded.exc) THEN Ok(None)
            ELSE loaded
    IN  IF Raised(run_summary) THEN run_summary
        ELSE IF Truthy(run_summary.val) THEN run_summary ELSE Ok(EmptyDict)

\* AgentState.get_run_summary
get_run_summary(file) ==
    LET f == open(file)
        loaded == IF Raised(f) THEN f ELSE yaml_safe_load(f.val)
        run_summary ==
            IF ~Raised(loaded) THEN loaded
            ELSE IF Catches("IOError", loaded.exc) THEN Ok(None)
            ELSE IF Catches("YAMLError", loaded.exc) THEN Ok(None)
            ELSE loaded
    IN  IF Raised(run_summary) THEN run_summary
        ELSE IF Truthy(run_summary.val) THEN run_summary ELSE Ok(EmptyDict)

\* run_duration without its handler for OSError
run_duration_unguarded(s, lock, clock) ==
    LET mtime == getmtime(lock)
        delta == IF Raised(mtime) THEN mtime ELSE get_timedelta(mtime.val, clock)
    IN  Out(delta, s)

\* PuppetAgent.run_duration
run_duration(s, lock, clock) ==
    LET mtime == getmtime(lock)
        delta == IF Raised(mtime) THEN mtime ELSE get_timedelta(mtime.val, clock)
    IN  IF ~Raised(delta) THEN Out(delta, s)
        ELSE IF Catches("OSError", delta.exc) THEN Out(Ok(None), s)
        ELSE Out(delta, s)

\* get_last_run assigning nothing unless every extraction succeeded
get_last_run_atomic(s, file, clock) ==
    LET run_summary == get_run_summary(file)
        rs == run_summary.val
        a1 == safe_get(rs, <<"time", "last_run">>)
        b1 == get_timedelta(a1.val, clock)
        a2 == safe_get(rs, <<"time", "total">>)
        b2 == int(a2.val)
        a3 == safe_get(rs, <<"events", "failure">>)
        a4 == safe_get(rs, <<"resources", "failed">>)
        a5 == safe_get(rs, <<"resources", "failed_to_restart">>)
        a6 == safe_get(rs, <<"version", "puppet">>)
    IN  IF Raised(run_summary) THEN Out(run_summary, s)
        ELSE IF ~Truthy(rs) THEN Out(Ok(Bool(FALSE)), s)
        ELSE IF Raised(a1) THEN Out(a1, s)
        ELSE IF Raised(b1) THEN Out(b1, s)
        ELSE IF Raised(a2) THEN Out(a2, s)
        ELSE IF Raised(b2) THEN Out(b2, s)
        ELSE IF Raised(a3) THEN Out(a3, s)
        ELSE IF Raised(a4) THEN Out(a4, s)
        ELSE IF Raised(a5) THEN Out(a5, s)
        ELSE IF Raised(a6) THEN Out(a6, s)
        ELSE Out(Ok(Bool(TRUE)),
                 [s EXCEPT !.last_run = b1.val, !.last_run_duration = b2.val,
                           !.events_failed = a3.val, !.resources_failed = a4.val,
                           !.resources_failed_restart = a5.val,
                           !.puppet_version = a6.val])

\* PuppetAgent.get_last_run
get_last_run(s, file, clock) ==
    LET run_summary == get_run_summary(file)
        rs == run_summary.val
        a1 == safe_get(rs, <<"time", "last_run">>)
        b1 == get_timedelta(a1.val, clock)
        s1 == [s EXCEPT !.last_run = b1.val]
        a2 == safe_get(rs, <<"time", "total">>)
        b2 == int(a2.val)
        s2 == [s1 EXCEPT !.last_run_duration = b2.val]
        a3 == safe_get(rs, <<"events", "failure">>)
        s3 == [s2 EXCEPT !.events_failed = a3.val]
        a4 == safe_get(rs, <<"resources", "failed">>)
        s4 == [s3 EXCEPT !.resources_failed = a4.val]
        a5 == safe_get(rs, <<"resources", "failed_to_restart">>)
        s5 == [s4 EXCEPT !.resources_failed_restart = a5.val]
        a6 == safe_get(rs, <<"version", "puppet">>)
        s6 == [s5 EXCEPT !.puppet_version = a6.val]
    IN  IF Raised(run_summary) THEN Out(run_summary, s)
        ELSE IF ~Truthy(rs) THEN Out(Ok(Bool(FALSE)), s)
        ELSE IF Raised(a1) THEN Out(a1, s)
        ELSE IF Raised(b1) THEN Out(b1, s)
        ELSE IF Raised(a2) THEN Out(a2, s1)
        ELSE IF Raised(b2) THEN Out(b2, s1)
        ELSE IF Raised(a3) THEN Out(a3, s2)
        ELSE IF Raised(a4) THEN Out(a4, s3)
        ELSE IF Raised(a5) THEN Out(a5, s4)
        ELSE IF Raised(a6) THEN Out(a6, s5)
        ELSE Out(Ok(Bool(TRUE)), s6)

\* PuppetAgent.__init__: the value returned by get_last_run is dropped
PuppetAgent_init(s, file, clock) ==
    LET s0 == [AgentState_init(s) EXCEPT
                  !.run_duration_ = None, !.last_run = None,
                  !.last_run_duration = None, !.events_failed = None,
                  !.resources_failed = None, !.resources_failed_restart = None,
                  !.puppet_version = None]
        r == get_last_run(s0, file, clock)
    IN  IF Raised(r.res) THEN r ELSE Out(Ok(None), r.self)

-----------------------------------------------------------------------------
(* The documents the environment may write *)

\* a complete run summary (section 6 of the specification: shape of
\* last_run_summary.yaml); last_run is 1 s, total is 3/Res s
FullSummary ==
    [time |-> Dict([last_run |-> Num(Res), total |-> Num(3)]),
     events |-> Dict([failure |-> Num(0)]),
     resources |-> Dict([failed |-> Num(Res), failed_to_restart |-> Num(Res + Res)]),
     version |-> Dict([puppet |-> Str("4.8.1")])]

Missing == [t |-> "missing"]
Restrict(f, S) == [k \in S |-> f[k]]

\* a section of the summary: missing, or present with any subset of its keys
SectionChoices(g) ==
    {Missing} \cup {Dict(Restrict(FullSummary[g].m, L)) : L \in SUBSET DOMAIN FullSummary[g].m}

\* FullSummary with every subset of its keys removed, at either level
KeySubsetDocs ==
    {Dict(Restrict(c, {g \in DOMAIN c : c[g] # Missing})) :
        c \in [time : SectionChoices("time"), events : SectionChoices("events"),
               resources : SectionChoices("resources"),
               version : SectionChoices("version")]}

\* values of time.last_run: a fraction of a second, one second, a time after
\* the last tick of the clock (a fraction of a second after it when Res = 2),
\* and values that are no timestamp
LastRunValues ==
    {Num(1), Num(Res), Num(MaxNow + 1), None, Str("yesterday"), BigNum}

\* values of time.total
TotalValues == {Num(3), Str("12"), Str("n/a"), None}

\* FullSummary with its two time values varied, and two partial summaries
ValueDocs ==
    {Dict([FullSummary EXCEPT !.time = Dict([last_run |-> T, total |-> D])]) :
        T \in LastRunValues, D \in TotalValues}
    \cup {Dict([events |-> Dict([failure |-> Num(Res)])]),
          Dict([time |-> Dict([last_run |-> Num(1)])])}

\* documents whose top level is no non-empty mapping
OtherDocs ==
    {None, EmptyDict, Str(""), Str("puppet"), Num(0), Num(Res), List(<<>>),
     List(<<Num(Res)>>)}

SummaryContents == {Malformed} \cup {Document(d) : d \in ValueDocs \cup OtherDocs}
KeySubsetContents == {Document(d) : d \in KeySubsetDocs}

\* contents of the disabled lock
DisabledDocs ==
    {None, EmptyDict, Str("disabled"), Num(Res), List(<<Str("x")>>),
     Dict([disabled_message |-> Str("maintenance")]),
     Dict([disabled_message |-> Str("upgrade")]),
     Dict([disabled_message |-> None]),
     Dict([reason |-> Str("maintenance")])}
DisabledContents == {Malformed} \cup {Document(d) : d \in DisabledDocs}

\* arguments of the helpers
Leaves == {None, Num(5 * Res), Str("s"), List(<<Num(Res)>>)}
MapsOver(V) == UNION {[K -> V] : K \in SUBSET {"a", "b"}}
Depth1 == Leaves \cup {Dict(m) : m \in MapsOver(Leaves)}
SafeGetData == Depth1 \cup {Dict(m) : m \in MapsOver(Depth1)}
KeyPaths == UNION {[1..n -> {"a", "b"}] : n \in 0..MaxKeys}

TimestampValues ==
    {Num(u) : u \in 0..(MaxNow + 1)} \cup
    {None, Str("yesterday"), List(<<>>), EmptyDict, BigNum}

-----------------------------------------------------------------------------
(* State *)

NoCall == [op |-> "none"]
Never == [y |-> "never"]
NoArgs == [fn |-> "none"]

Call(op, clock, res) == [op |-> op, clock |-> clock, res |-> res]

InitObject ==
    /\ now = 0
    /\ phase = "new"
    /\ self = Unborn
    /\ ret = NoCall
    /\ last_present = Never

Init ==
    /\ InitObject
    /\ args = NoArgs
    /\ summary_file = Absent
    /\ run_lock = Absent
    /\ disabled_lock = Absent

-----------------------------------------------------------------------------
(* The environment *)

\* time passes
Tick ==
    /\ now < MaxNow
    /\ now' = now + 1
    /\ UNCHANGED <<summary_file, run_lock, disabled_lock, phase, self, args, ret,
                   last_present>>

\* the agent (or an operator) writes, removes or protects the summary file
WriteSummary(contents) ==
    /\ \E c \in contents : summary_file' = TextFile(c)
    /\ summary_file' # summary_file
    /\ ret' = NoCall
    /\ UNCHANGED <<now, run_lock, disabled_lock, phase, self, args, last_present>>

RemoveSummary ==
    /\ summary_file # Absent
    /\ summary_file' = Absent
    /\ ret' = NoCall
    /\ UNCHANGED <<now, run_lock, disabled_lock, phase, self, args, last_present>>

ProtectSummary ==
    /\ summary_file # NoAccess
    /\ summary_file' = NoAccess
    /\ ret' = NoCall
    /\ UNCHANGED <<now, run_lock, disabled_lock, phase, self, args, last_present>>

\* puppet agent --disable / --enable, or an operator editing the lock
WriteDisabledLock ==
    /\ \E c \in DisabledContents : disabled_lock' = TextFile(c)
    /\ disabled_lock' # disabled_lock
    /\ ret' = NoCall
    /\ UNCHANGED <<now, summary_file, run_lock, phase, self, args, last_present>>

RemoveDisabledLock ==
    /\ disabled_lock # Absent
    /\ disabled_lock' = Absent
    /\ ret' = NoCall
    /\ UNCHANGED <<now, summary_file, run_lock, phase, self, args, last_present>>

ProtectDisabledLock ==
    /\ disabled_lock # NoAccess
    /\ disabled_lock' = NoAccess
    /\ ret' = NoCall
    /\ UNCHANGED <<now, summary_file, run_lock, phase, self, args, last_present>>

\* the agent starts a catalog run: the lock is created now
CreateRunLock ==
    /\ run_lock = Absent
    /\ run_lock' = LockFile(now)
    /\ ret' = NoCall
    /\ UNCHANGED <<now, summary_file, disabled_lock, phase, self, args, last_present>>

\* the lock is rewritten: its modification time becomes now
TouchRunLock ==
    /\ run_lock.st = "file"
    /\ run_lock' = LockFile(now)
    /\ run_lock' # run_lock
    /\ ret' = NoCall
    /\ UNCHANGED <<now, summary_file, disabled_lock, phase, self, args, last_present>>

\* utime(): the modification time is set to any time, also a later one
UtimeRunLock ==
    /\ run_lock.st = "file"
    /\ \E m \in 0..(MaxNow + 1) : run_lock' = LockFile(m)
    /\ run_lock' # run_lock
    /\ ret' = NoCall
    /\ UNCHANGED <<now, summary_file, disabled_lock, phase, self, args, last_present>>

RemoveRunLock ==
    /\ run_lock # Absent
    /\ run_lock' = Absent
    /\ ret' = NoCall
    /\ UNCHANGED <<now, summary_file, disabled_lock, phase, self, args, last_present>>

ProtectRunLock ==
    /\ run_lock # NoAccess
    /\ run_lock' = NoAccess
    /\ ret' = NoCall
    /\ UNCHANGED <<now, summary_file, disabled_lock, phase, self, args, last_present>>

-----------------------------------------------------------------------------
(* The calls *)

\* PuppetAgent(...)
Construct ==
    /\ phase = "new"
    /\ LET r == PuppetAgent_init(self, summary_file, now) IN
        /\ self' = r.self
        /\ phase' = IF Raised(r.res) THEN "failed" ELSE "live"
        /\ ret' = Call("__init__", now, r.res)
    /\ UNCHANGED <<now, summary_file, run_lock, disabled_lock, args, last_present>>

\* puppet_agent.get_run_summary()
GetRunSummary ==
    /\ phase = "live"
    /\ ret' = Call("get_run_summary", now, get_run_summary(summary_file))
    /\ UNCHANGED <<now, summary_file, run_lock, disabled_lock, phase, self, args,
                   last_present>>

\* puppet_agent.get_last_run()
GetLastRun ==
    /\ phase = "live"
    /\ LET r == get_last_run(self, summary_file, now) IN
        /\ self' = r.self
        /\ ret' = Call("get_last_run", now, r.res)
    /\ UNCHANGED <<now, summary_file, run_lock, disabled_lock, phase, args,
                   last_present>>

\* puppet_agent.disabled
ReadDisabled ==
    /\ phase = "live"
    /\ LET r == disabled(self, disabled_lock) IN
        /\ self' = r.self
        /\ ret' = Call("disabled", now, r.res)
    /\ last_present' = IF disabled_lock.st = "file" THEN disabled_lock.content
                                                    ELSE last_present
    /\ UNCHANGED <<now, summary_file, run_lock, disabled_lock, phase, args>>

\* puppet_agent.run_duration
ReadRunDuration ==
    /\ phase = "live"
    /\ LET r == run_duration(self, run_lock, now) IN
        /\ self' = r.self
        /\ ret' = Call("run_duration", now, r.res)
    /\ UNCHANGED <<now, summary_file, run_lock, disabled_lock, phase, args,
                   last_present>>

\* safe_get(data, *keys) on the arguments drawn initially
CallSafeGet ==
    /\ args.fn = "safe_get"
    /\ ret' = Call("safe_get", now, safe_get(args.data, args.keys))
    /\ UNCHANGED <<now, summary_file, run_lock, disabled_lock, phase, self, args,
                   last_present>>

\* get_timedelta(timestamp) on the argument drawn initially
CallGetTimedelta ==
    /\ args.fn = "get_timedelta"
    /\ ret' = Call("get_timedelta", now, get_timedelta(args.timestamp, now))
    /\ UNCHANGED <<now, summary_file, run_lock, disabled_lock, phase, self, args,
                   last_present>>

-----------------------------------------------------------------------------
(* Specifications *)

\* the whole program
Next ==
    \/ Tick
    \/ WriteSummary(SummaryContents \cup KeySubsetContents)
    \/ RemoveSummary
    \/ ProtectSummary
    \/ WriteDisabledLock
    \/ RemoveDisabledLock
    \/ ProtectDisabledLock
    \/ CreateRunLock
    \/ TouchRunLock
    \/ UtimeRunLock
    \/ RemoveRunLock
    \/ ProtectRunLock
    \/ Construct
    \/ GetRunSummary
    \/ GetLastRun
    \/ ReadDisabled
    \/ ReadRunDuration

Spec == Init /\ [][Next]_vars

\* the summary file and the calls that read it (the two locks stay absent:
\* no call on the summary reads them)
NextSummary ==
    \/ Tick
    \/ WriteSummary(SummaryContents)
    \/ RemoveSummary
    \/ ProtectSummary
    \/ Construct
    \/ GetRunSummary
    \/ GetLastRun

SpecSummary == Init /\ [][NextSummary]_vars

\* the same with the summaries that lack keys, the clock stopped
NextKeySubsets ==
    \/ WriteSummary(KeySubsetContents)
    \/ RemoveSummary
    \/ Construct
    \/ GetLastRun

SpecKeySubsets == Init /\ [][NextKeySubsets]_vars

\* the disabled lock and the property that reads it
NextDisabled ==
    \/ WriteDisabledLock
    \/ RemoveDisabledLock
    \/ ProtectDisabledLock
    \/ Construct
    \/ ReadDisabled

SpecDisabled == Init /\ [][NextDisabled]_vars

\* the run lock and the property that reads it, on an instance constructed
\* from a complete summary or from none
InitRunLock ==
    /\ InitObject
    /\ args = NoArgs
    /\ summary_file \in {Absent, TextFile(Document(Dict(FullSummary)))}
    /\ run_lock = Absent
    /\ disabled_lock = Absent

NextRunLock ==
    \/ Tick
    \/ CreateRunLock
    \/ TouchRunLock
    \/ UtimeRunLock
    \/ RemoveRunLock
    \/ ProtectRunLock
    \/ Construct
    \/ ReadRunDuration

SpecRunLock == InitRunLock /\ [][NextRunLock]_vars

\* safe_get on every document and key path of the universe
InitSafeGet ==
    /\ InitObject
    /\ args \in [fn : {"safe_get"}, data : SafeGetData, keys : KeyPaths]
    /\ summary_file = Absent
    /\ run_lock = Absent
    /\ disabled_lock = Absent

SpecSafeGet == InitSafeGet /\ [][CallSafeGet]_vars

\* get_timedelta on every timestamp of the universe, at every time
InitTimedelta ==
    /\ InitObject
    /\ args \in [fn : {"get_timedelta"}, timestamp : TimestampValues]
    /\ summary_file = Absent
    /\ run_lock = Absent
    /\ disabled_lock = Absent

NextTimedelta ==
    \/ Tick
    \/ CallGetTimedelta

SpecTimedelta == InitTimedelta /\ [][NextTimedelta]_vars

-----------------------------------------------------------------------------
(* Vocabulary of the claims *)

\* the document in a file, when the file holds one
HoldsDocument(file) == file.st = "file" /\ file.content.y = "document"
DocumentOf(file) == file.content.doc

IsNonEmptyMapping(v) == v.t = "dict" /\ DOMAIN v.m # {}

\* whole seconds in d ticks, as a number: rounded down, and cut toward zero
FloorSeconds(d) == Num((d \div Res) * Res)
WholeSeconds(d) == Num((IF d >= 0 THEN d \div Res ELSE -((-d) \div Res)) * Res)

\* the value at section.key of a summary, Missing when either is not there
At(doc, section, key) ==
    IF doc.t = "dict" /\ section \in DOMAIN doc.m /\ doc.m[section].t = "dict"
       /\ key \in DOMAIN doc.m[section].m
    THEN doc.m[section].m[key]
    ELSE Missing

OrNone(v) == IF v = Missing THEN None ELSE v

\* the step is a call of `op` (the environment's steps on a file clear ret,
\* a tick moves the clock, every other call leaves another name in ret)
IsCall(op) == ret'.op = op /\ now' = now

-----------------------------------------------------------------------------
(* C1 *)

\* C1: get_run_summary never raises and always returns a mapping: the parsed
\* mapping when the file holds a non-empty mapping, the empty mapping for
\* every other state of the file (absent, unreadable, malformed, empty, a
\* scalar or a sequence at the top level).
C1_AlwaysReturnsMapping ==
    ret.op = "get_run_summary" =>
        /\ ~Raised(ret.res)
        /\ ret.res.val =
              IF HoldsDocument(summary_file)
                 /\ IsNonEmptyMapping(DocumentOf(summary_file))
              THEN DocumentOf(summary_file)
              ELSE EmptyDict

-----------------------------------------------------------------------------
(* C2, C3 *)

\* the message a lock's content carries: the value of disabled_message when
\* the content is a mapping that has the key, None otherwise
MessageIn(content) ==
    IF content.y = "document" /\ content.doc.t = "dict"
       /\ "disabled_message" \in DOMAIN content.doc.m
    THEN content.doc.m["disabled_message"]
    ELSE None

\* C2: whenever the disabled lock exists and can be opened, reading `disabled`
\* returns True without raising, whatever the file contains, and
\* disabled_message is the message of the content (None when the content is
\* empty, no mapping or malformed).
C2_PresentLockMeansDisabled ==
    (ret.op = "disabled" /\ disabled_lock.st = "file") =>
        /\ ret.res = Ok(Bool(TRUE))
        /\ self.disabled_message = MessageIn(disabled_lock.content)

\* C3: disabled_message always equals the message of the lock's content at
\* the most recent read of `disabled` made while the lock was present, and is
\* None before any such read.
C3_MessageOfLastPresentRead ==
    self.disabled_message =
        IF last_present = Never THEN None ELSE MessageIn(last_present)

-----------------------------------------------------------------------------
(* C4 *)

\* C4: for every non-empty summary mapping that lacks any subset of the six
\* keys, get_last_run does not raise, returns True, leaves None in every field
\* whose key is missing and the value found in every other plain field.
C4_MissingKeysGiveNone ==
    (ret.op = "get_last_run" /\ HoldsDocument(summary_file)
     /\ DocumentOf(summary_file) \in KeySubsetDocs
     /\ IsNonEmptyMapping(DocumentOf(summary_file))) =>
        LET d == DocumentOf(summary_file) IN
        /\ ret.res = Ok(Bool(TRUE))
        /\ At(d, "time", "last_run") = Missing => self.last_run = None
        /\ At(d, "time", "total") = Missing => self.last_run_duration = None
        /\ self.events_failed = OrNone(At(d, "events", "failure"))
        /\ self.resources_failed = OrNone(At(d, "resources", "failed"))
        /\ self.resources_failed_restart =
              OrNone(At(d, "resources", "failed_to_restart"))
        /\ self.puppet_version = OrNone(At(d, "version", "puppet"))

-----------------------------------------------------------------------------
(* C5 *)

\* the summary file is absent, unreadable, malformed or empty
NoData(file) ==
    \/ file.st # "file"
    \/ file.content = Malformed
    \/ file.content.y = "document" /\ file.content.doc \in {None, EmptyDict}

\* C5: whenever the summary file is absent, unreadable, malformed or empty,
\* get_last_run returns False and changes no attribute, and the constructor
\* completes without raising with the six derived fields and
\* disabled_message all None.
C5_NoDataLeavesFields ==
    [][/\ (IsCall("get_last_run") /\ NoData(summary_file)) =>
            (ret'.res = Ok(Bool(FALSE)) /\ self' = self)
       /\ (IsCall("__init__") /\ NoData(summary_file)) =>
            (~Raised(ret'.res) /\ phase' = "live" /\ self' = Unborn)]_vars

\* a get_last_run that found a malformed summary and returned False, on an
\* instance still holding the values of an earlier summary
C5_Witness ==
    /\ ret.op = "get_last_run"
    /\ summary_file = TextFile(Malformed)
    /\ ret.res = Ok(Bool(FALSE))
    /\ self.last_run # None
    /\ self.last_run_duration # None
    /\ self.puppet_version = Str("4.8.1")

-----------------------------------------------------------------------------
(* C6 *)

\* the summary holds a number at time.last_run
HasTimestamp(file) ==
    /\ HoldsDocument(file)
    /\ IsNonEmptyMapping(DocumentOf(file))
    /\ At(DocumentOf(file), "time", "last_run").t = "num"
TimestampOf(file) == At(DocumentOf(file), "time", "last_run").u

-----------------------------------------------------------------------------
(* C7 *)

-----------------------------------------------------------------------------
(* C8, C9 *)

\* the value at the end of a key path, None as soon as the current value is
\* no mapping or lacks the key
RECURSIVE Walk(_, _)
Walk(data, keys) ==
    IF keys = <<>> THEN data
    ELSE IF data.t = "dict" /\ Head(keys) \in DOMAIN data.m
         THEN Walk(data.m[Head(keys)], Tail(keys))
         ELSE None

\* C8: safe_get never raises; it returns the value reached when every key is
\* present along the path and None as soon as a key is absent or the current
\* value is no mapping (None, a number, a string, a sequence).
C8_SafeGetNeverRaises ==
    ret.op = "safe_get" =>
        /\ ~Raised(ret.res)
        /\ ret.res.val = Walk(args.data, args.keys)

\* C9: get_timedelta never raises; it returns None for None, for a value that
\* is no number and for a number outside the representable range, and the
\* whole seconds between now and the timestamp otherwise.
C9_TimedeltaNeverRaises ==
    ret.op = "get_timedelta" =>
        /\ ~Raised(ret.res)
        /\ ret.res.val = IF args.timestamp.t = "num"
                         THEN WholeSeconds(ret.clock - args.timestamp.u)
                         ELSE None

-----------------------------------------------------------------------------
(* C10 *)

\* the summary is a non-empty mapping, get_last_run reaches the coercion of
\* time.total (time is a section or missing, time.last_run converts without
\* an error) and the coercion raises
CoercionRaises(file) ==
    /\ HoldsDocument(file)
    /\ IsNonEmptyMapping(DocumentOf(file))
    /\ "time" \in DOMAIN DocumentOf(file).m => DocumentOf(file).m["time"].t = "dict"
    /\ At(DocumentOf(file), "time", "last_run") # BigNum
    /\ OrNone(At(DocumentOf(file), "time", "total")).t \in {"None", "str", "list", "dict"}
    /\ OrNone(At(DocumentOf(file), "time", "total")) # Str("12")

\* what last_run becomes from the summary in `file` at time `clock`
NewLastRun(file, clock) ==
    IF At(DocumentOf(file), "time", "last_run").t = "num"
    THEN WholeSeconds(clock - TimestampOf(file))
    ELSE None

=============================================================================
